---- MODULE Spec2Model ----
(***************************************************************************)
(* Data pipeline of datacase.py (Negreiros NET dashboard): the loader and  *)
(* normalizer, the synthetic generator, the filter engine, the KPI         *)
(* aggregator and the trend synthesizer, and the render cycle of main().   *)
(*                                                                         *)
(* Representation.                                                         *)
(*  - A text (Python str) is a sequence of tokens.  Identifiers and        *)
(*    numeric cells are spelled character by character; names are spelled  *)
(*    word by word with explicit whitespace tokens (" ", "\n").            *)
(*  - A cell of a string column is [null, text]; null is pandas' NaN.      *)
(*  - A float is an exact rational [nan, num, den] in lowest terms         *)
(*    (IEEE rounding is not modelled).                                     *)
(*  - A DataFrame is a sequence of row records; Index is the pandas label. *)
(*  - A seeded numpy generator is a fixed but unknown stream: Draw gives   *)
(*    its k-th value, and the model is checked for several streams.        *)
(***************************************************************************)
EXTENDS Integers, Sequences, FiniteSets, TLC

VARIABLES pc, file, rng, df, source, sel, df_filtrado, df_twice, kpis,
          seed_data, trend, trend_info

vars == <<pc, file, rng, df, source, sel, df_filtrado, df_twice, kpis,
          seed_data, trend, trend_info>>

(***************************************************************************)
(* Bounds of the model                                                     *)
(***************************************************************************)
MaxRows == 2
MaxSel == 2
MaxSlider == 0
MaxStreams == 1
MaxSeedLen == 2
MaxZ == 6

(***************************************************************************)
(* Program constants                                                       *)
(***************************************************************************)
DefaultNumClients == 150
IdWidth == 3
SliderStep == 10
UniformLow == 60
UniformHigh == 200
NormalSigma == 12
ConsumoLow == 10
ConsumoHigh == 550

(***************************************************************************)
(* Floats as exact rationals                                               *)
(***************************************************************************)
Abs(n) == IF n < 0 THEN -n ELSE n

RECURSIVE GCD(_, _)
GCD(a, b) == IF b = 0 THEN a ELSE GCD(b, a % b)

Rat(n, d) ==
    LET g == GCD(Abs(n), Abs(d))
        s == IF d < 0 THEN -1 ELSE 1
    IN  [nan |-> FALSE, num |-> (s * n) \div g, den |-> (s * d) \div g]

F(n) == [nan |-> FALSE, num |-> n, den |-> 1]

NaN == [nan |-> TRUE, num |-> 0, den |-> 1]

FAdd(a, b) ==
    IF a.nan \/ b.nan THEN NaN
    ELSE Rat(a.num * b.den + b.num * a.den, a.den * b.den)

FMul(a, b) ==
    IF a.nan \/ b.nan THEN NaN ELSE Rat(a.num * b.num, a.den * b.den)

FDiv(a, b) ==
    IF a.nan \/ b.nan THEN NaN ELSE Rat(a.num * b.den, a.den * b.num)

\* Comparisons with NaN are False, as in IEEE arithmetic.
FGt(a, b) == ~a.nan /\ ~b.nan /\ a.num * b.den > b.num * a.den

FGe(a, b) == ~a.nan /\ ~b.nan /\ a.num * b.den >= b.num * a.den

\* max(x, 0) left out: the value is not floored.
NoFloor(x) == x

\* Python's max(x, 0): x when x > 0 is True, and 0 otherwise.
FMax0(x) == IF FGt(x, F(0)) THEN x ELSE IF x.nan THEN x ELSE F(0)

(***************************************************************************)
(* Texts                                                                   *)
(***************************************************************************)
IsSpace(c) == c \in {" ", "\n", "\t"}

RECURSIVE LStrip(_)
LStrip(t) ==
    IF t = <<>> THEN t
    ELSE IF IsSpace(Head(t)) THEN LStrip(Tail(t)) ELSE t

RECURSIVE RStrip(_)
RStrip(t) ==
    IF t = <<>> THEN t
    ELSE IF IsSpace(t[Len(t)]) THEN RStrip(SubSeq(t, 1, Len(t) - 1)) ELSE t

\* str.strip()
strip(t) == RStrip(LStrip(t))

\* str.replace("\n", " ")
replace_newline(t) == [i \in 1..Len(t) |-> IF t[i] = "\n" THEN " " ELSE t[i]]

\* Padding on the wrong side (ljust in place of zfill).
RECURSIVE zfill_right(_, _)
zfill_right(t, width) ==
    IF Len(t) >= width THEN t ELSE zfill_right(t \o <<"0">>, width)

\* Series.str.zfill(width) on a text without sign: left-pad with "0".
RECURSIVE zfill(_, _)
zfill(t, width) == IF Len(t) >= width THEN t ELSE zfill(<<"0">> \o t, width)

DigitChars == <<"0", "1", "2", "3", "4", "5", "6", "7", "8", "9">>

IsDigit(c) == \E d \in 1..10 : DigitChars[d] = c

DigitValue(c) == (CHOOSE d \in 1..10 : DigitChars[d] = c) - 1

\* str(n) of a non-negative int
RECURSIVE NatToStr(_)
NatToStr(n) ==
    IF n < 10 THEN <<DigitChars[n + 1]>>
    ELSE NatToStr(n \div 10) \o <<DigitChars[(n % 10) + 1]>>

\* str(n) of an int
IntToStr(n) == IF n < 0 THEN <<"-">> \o NatToStr(-n) ELSE NatToStr(n)

IsNatText(t) == t # <<>> /\ \A i \in 1..Len(t) : IsDigit(t[i])

IsIntText(t) ==
    \/ IsNatText(t)
    \/ t # <<>> /\ Head(t) = "-" /\ IsNatText(Tail(t))

RECURSIVE ParseNat(_)
ParseNat(t) ==
    IF t = <<>> THEN 0
    ELSE 10 * ParseNat(SubSeq(t, 1, Len(t) - 1)) + DigitValue(t[Len(t)])

ParseInt(t) == IF Head(t) = "-" THEN -ParseNat(Tail(t)) ELSE ParseNat(t)

\* A cell of a string column
S(t) == [null |-> FALSE, text |-> t]

NullCell == [null |-> TRUE, text |-> <<>>]

\* astype(str) of one cell of an object column: NaN becomes the text "nan".
NanText == <<"n", "a", "n">>

astype_str(c) == IF c.null THEN NanText ELSE c.text

(***************************************************************************)
(* Coordinate table                                                        *)
(***************************************************************************)
Centro == <<"Centro">>
AreiaBranca == <<"Areia", " ", "Branca">>
CohabMassangano == <<"Cohab", " ", "Massangano">>
JardimMaravilha == <<"Jardim", " ", "Maravilha">>
GercinoCoelho == <<"Gercino", " ", "Coelho">>
DomAvelar == <<"Dom", " ", "Avelar">>
JoseEMaria == <<"José", " ", "e", " ", "Maria">>
PedraLinda == <<"Pedra", " ", "Linda">>
VilaMoco == <<"Vila", " ", "Mocó">>
ValeDoGrandeRio == <<"Vale", " ", "do", " ", "Grande", " ", "Rio">>

\* Degrees as exact rationals: -9.3890 is -93890/10000.
Deg(n) == Rat(n, 10000)

BAIRRO_COORDS ==
    (Centro :> <<Deg(-93890), Deg(-405020)>>) @@
    (AreiaBranca :> <<Deg(-94080), Deg(-405260)>>) @@
    (CohabMassangano :> <<Deg(-94110), Deg(-405000)>>) @@
    (JardimMaravilha :> <<Deg(-94200), Deg(-405100)>>) @@
    (GercinoCoelho :> <<Deg(-94300), Deg(-404950)>>) @@
    (DomAvelar :> <<Deg(-94400), Deg(-405000)>>) @@
    (JoseEMaria :> <<Deg(-94500), Deg(-405050)>>) @@
    (PedraLinda :> <<Deg(-94600), Deg(-405100)>>) @@
    (VilaMoco :> <<Deg(-94700), Deg(-405200)>>) @@
    (ValeDoGrandeRio :> <<Deg(-94800), Deg(-405300)>>)

\* Texts that are no key of the table but occur in the model's inputs.
ZonaRural == <<"Zona", " ", "Rural">>

Residencial == <<"Residencial">>
Empresarial == <<"Empresarial">>
Premium == <<"Premium">>

\* Python's order on the neighbourhood and plan-tier texts of the model
\* (code points: "" first, capitals before lower case).
TextOrder ==
    << <<>>, AreiaBranca, Centro, CohabMassangano, DomAvelar, Empresarial,
       GercinoCoelho, JardimMaravilha, JoseEMaria, PedraLinda, Premium,
       Residencial, ValeDoGrandeRio, VilaMoco, ZonaRural, NanText >>

TextRank(t) == CHOOSE i \in 1..Len(TextOrder) : TextOrder[i] = t

\* sorted(...) of a set of texts
SortTexts(ts) ==
    LET member(t) == t \in ts
    IN  SelectSeq(TextOrder, member)

\* BAIRRO_COORDS.get(bairro, (nan, nan))
coords_get(bairro) ==
    IF bairro \in DOMAIN BAIRRO_COORDS THEN BAIRRO_COORDS[bairro]
    ELSE <<NaN, NaN>>

(***************************************************************************)
(* Seeded generators                                                       *)
(***************************************************************************)
SeedSynthetic == 42
SeedTrend == 2024

\* The k-th value (k = 0, 1, ...) of the generator seeded with seed, as an
\* index below n; s selects which stream the model takes the generator's
\* (fixed, unknown) output to be.
Draw(seed, s, k, n) == (((k + 3 * s + seed) * 7919 + 12345) \div 16) % n

(***************************************************************************)
(* generate_synthetic_data                                                 *)
(***************************************************************************)
planos == <<50, 100, 150, 200, 500>>

tipos_plano == <<Residencial, Empresarial, Premium>>

bairros_sorted == SortTexts(DOMAIN BAIRRO_COORDS)

\* f"{i:03d}" for i >= 0
format_03d(i) == zfill(NatToStr(i), IdWidth)

\* range(1, num_clients) in place of range(1, num_clients + 1)
generate_one_short(num_clients, s) ==
    [i \in 1..(num_clients - 1) |->
        [Index |-> i - 1,
         ClienteID |-> format_03d(i),
         Bairro |-> S(bairros_sorted[Draw(SeedSynthetic, s, i - 1, Len(bairros_sorted)) + 1]),
         Plano |-> F(planos[Draw(SeedSynthetic, s, num_clients + i - 1, Len(planos)) + 1]),
         TipoDePlano |->
            S(tipos_plano[Draw(SeedSynthetic, s, 2 * num_clients + i - 1, Len(tipos_plano)) + 1]),
         ConsumoAtual |->
            F(ConsumoLow
              + Draw(SeedSynthetic, s, 3 * num_clients + i - 1, ConsumoHigh - ConsumoLow))]]

\* Columns are drawn one after the other from the same generator: Bairro
\* takes draws 0..n-1, Plano n..2n-1, Tipo 2n..3n-1, Consumo 3n..4n-1.
generate_synthetic_data(num_clients, s) ==
    [i \in 1..num_clients |->
        [Index |-> i - 1,
         ClienteID |-> format_03d(i),
         Bairro |-> S(bairros_sorted[Draw(SeedSynthetic, s, i - 1, Len(bairros_sorted)) + 1]),
         Plano |-> F(planos[Draw(SeedSynthetic, s, num_clients + i - 1, Len(planos)) + 1]),
         TipoDePlano |->
            S(tipos_plano[Draw(SeedSynthetic, s, 2 * num_clients + i - 1, Len(tipos_plano)) + 1]),
         ConsumoAtual |->
            F(ConsumoLow
              + Draw(SeedSynthetic, s, 3 * num_clients + i - 1, ConsumoHigh - ConsumoLow))]]

(***************************************************************************)
(* The input file                                                          *)
(***************************************************************************)
H_ClienteID == <<"ClienteID">>
H_Bairro == <<"Bairro">>
H_Plano == <<"Plano", " ", "(MB/s)">>
H_Tipo == <<"Tipo", " ", "de", " ", "Plano">>
H_Consumo == <<"Consumo", " ", "Atual", " ", "(MB/s)">>

required_columns == {H_ClienteID, H_Plano, H_Consumo, H_Tipo, H_Bairro}

CleanHeader == <<H_ClienteID, H_Bairro, H_Plano, H_Tipo, H_Consumo>>

\* The same header as a spreadsheet export writes it: line breaks inside
\* the names and stray blanks around them.
DirtyHeader ==
    << <<"ClienteID", " ">>, <<" ", "Bairro">>, <<"Plano", "\n", "(MB/s)">>,
       <<"Tipo", " ", "de", "\n", "Plano">>,
       <<"\n", "Consumo", " ", "Atual", "\n", "(MB/s)", " ">> >>

RemoveAt(q, j) == [i \in 1..(Len(q) - 1) |-> IF i < j THEN q[i] ELSE q[i + 1]]

\* Rows of the input file, cells in the order of CleanHeader.
RowPool ==
    << << S(<<"0", "0", "1">>), S(Centro), S(<<"5", "0">>),
          S(Residencial), S(<<"6", "0">>) >>,
       << S(<<"0", "0", "2">>), S(<<" ">> \o Centro \o <<" ">>), S(<<"1", "0", "0">>),
          S(Empresarial), S(<<"5", "0">>) >>,
       << S(<<"0", "0", "3">>), S(AreiaBranca), S(<<"5", "0">>),
          S(Residencial), S(<<"8", "0">>) >>,
       << S(<<"1", "0", "0", "0">>), S(ZonaRural), S(<<"5", "0">>),
          S(Premium), S(<<"2", "0">>) >>,
       << S(<<"5">>), S(Centro), S(<<"-", "1", "0">>),
          S(Residencial), S(<<"-", "1", "2">>) >>,
       << S(<<"A", "7">>), NullCell, S(<<"1", "0", "0">>),
          S(Empresarial), S(<<"7", "0">>) >>,
       << S(<<"8">>), S(Centro), S(<<"a", "b", "c">>),
          S(Residencial), S(<<"3", "0">>) >>,
       << NullCell, S(AreiaBranca), S(<<"5", "0">>),
          NullCell, S(<<"4", "0">>) >> >>

\* Row sequences of at most n rows, pool rows in non-decreasing order.
RECURSIVE RowSeqsFrom(_, _)
RowSeqsFrom(lo, n) ==
    IF n = 0 THEN {<<>>}
    ELSE {<<>>} \cup
         UNION {{<<RowPool[p]>> \o q : q \in RowSeqsFrom(p, n - 1)} :
                    p \in lo..Len(RowPool)}

ScenarioRows == <<RowPool[1], RowPool[2], RowPool[3]>>

Files ==
    {[kind |-> k, header |-> <<>>, rows |-> <<>>] : k \in {"missing", "garbled"}}
    \cup {[kind |-> "table", header |-> CleanHeader, rows |-> q] :
            q \in RowSeqsFrom(1, MaxRows) \cup {ScenarioRows}}
    \cup {[kind |-> "table", header |-> DirtyHeader, rows |-> <<RowPool[p]>>] :
            p \in 1..Len(RowPool)}
    \cup {[kind |-> "table", header |-> RemoveAt(CleanHeader, j),
           rows |-> <<RemoveAt(RowPool[1], j), RemoveAt(RowPool[3], j)>>] :
            j \in 1..Len(CleanHeader)}

(***************************************************************************)
(* load_client_data                                                        *)
(***************************************************************************)
_clean_columns(columns) ==
    [i \in 1..Len(columns) |-> strip(replace_newline(columns[i]))]

HasColumn(columns, name) == \E i \in 1..Len(columns) : columns[i] = name

\* df[name]: the cells of column name, one per row
Column(columns, rows, name) ==
    LET j == CHOOSE i \in 1..Len(columns) : columns[i] = name
    IN  [i \in 1..Len(rows) |-> rows[i][j]]

\* pd.to_numeric(errors="coerce") of one cell
to_numeric(c) ==
    IF c.null THEN NaN
    ELSE IF IsIntText(c.text) THEN F(ParseInt(c.text)) ELSE NaN

\* read_csv's type of a column followed by astype(str): a column of
\* integers is int64 ("007" reads 7 and prints "7"), a column of integers
\* and empty cells is float64 (7 prints "7.0", the empty cell "nan"), any
\* other column keeps its texts (the empty cell prints "nan").
column_astype_str(cells) ==
    LET numeric(c) == c.null \/ IsIntText(c.text)
        all_int == \A i \in 1..Len(cells) : ~cells[i].null /\ IsIntText(cells[i].text)
        all_num == \A i \in 1..Len(cells) : numeric(cells[i])
    IN  [i \in 1..Len(cells) |->
            IF all_int THEN IntToStr(ParseInt(cells[i].text))
            ELSE IF all_num /\ ~cells[i].null
                 THEN IntToStr(ParseInt(cells[i].text)) \o <<".", "0">>
            ELSE astype_str(cells[i])]

\* The try block succeeds: the file reads as a table and every column the
\* block touches is there (df.get(...) of an absent column is the default
\* "", whose .astype raises; the required-columns test raises ValueError).
read_ok(f) ==
    /\ f.kind = "table"
    /\ HasColumn(_clean_columns(f.header), H_Bairro)
    /\ HasColumn(_clean_columns(f.header), H_ClienteID)
    /\ required_columns \subseteq
          {_clean_columns(f.header)[i] : i \in 1..Len(f.header)}

\* The table at the end of the try block.
read_table(f) ==
    LET columns == _clean_columns(f.header)
        ids == column_astype_str(Column(columns, f.rows, H_ClienteID))
        bairro == Column(columns, f.rows, H_Bairro)
        plano == Column(columns, f.rows, H_Plano)
        tipo == Column(columns, f.rows, H_Tipo)
        consumo == Column(columns, f.rows, H_Consumo)
    IN  [i \in 1..Len(f.rows) |->
            [Index |-> i - 1,
             ClienteID |-> zfill(ids[i], IdWidth),
             Bairro |-> S(strip(astype_str(bairro[i]))),
             Plano |-> to_numeric(plano[i]),
             TipoDePlano |-> tipo[i],
             ConsumoAtual |-> to_numeric(consumo[i])]]

\* df.dropna(subset=[Plano, Consumo Atual, Tipo de Plano, Bairro])
dropna_keeps(r) ==
    ~r.Plano.nan /\ ~r.ConsumoAtual.nan /\ ~r.TipoDePlano.null /\ ~r.Bairro.null

dropna(rows) == SelectSeq(rows, dropna_keeps)

Excedeu_of(r) == FGt(r.ConsumoAtual, r.Plano)

\* The factor 1.5 mistyped as 0.5
Excedeu50_half(r) == FGt(r.ConsumoAtual, FMul(r.Plano, Rat(1, 2)))

Excedeu50_of(r) == FGt(r.ConsumoAtual, FMul(r.Plano, Rat(3, 2)))

normalize_row(r) ==
    LET b == S(strip(astype_str(r.Bairro)))
    IN  [Index |-> r.Index,
         ClienteID |-> zfill(r.ClienteID, IdWidth),
         Bairro |-> b,
         Plano |-> r.Plano,
         TipoDePlano |-> r.TipoDePlano,
         ConsumoAtual |-> r.ConsumoAtual,
         Excedeu |-> Excedeu_of(r),
         Excedeu50 |-> Excedeu50_of(r),
         Lat |-> coords_get(b.text)[1],
         Lon |-> coords_get(b.text)[2]]

SourceFile == "Arquivo CSV"
SourceSimulated == "Dados simulados"

load_client_data(f, s) ==
    LET tried == IF read_ok(f) THEN read_table(f)
                 ELSE generate_synthetic_data(DefaultNumClients, s)
        kept == dropna(tried)
    IN  [df |-> [i \in 1..Len(kept) |-> normalize_row(kept[i])],
         source |-> IF read_ok(f) THEN SourceFile ELSE SourceSimulated]

(***************************************************************************)
(* render_filters: what the widgets offer                                  *)
(***************************************************************************)
Todos == "Todos"
ApenasCriticos == "Apenas criticos"
SemCriticos == "Sem criticos"

Modes == {Todos, ApenasCriticos, SemCriticos}

BairrosOf(d) == {d[i].Bairro.text : i \in 1..Len(d)}

TiposOf(d) == {d[i].TipoDePlano.text : i \in 1..Len(d)}

\* The maximum over the rows lo..hi of the column, by halves.
RECURSIVE MaxRange(_, _, _)
MaxRange(d, lo, hi) ==
    IF lo = hi THEN d[lo].ConsumoAtual
    ELSE LET a == MaxRange(d, lo, (lo + hi) \div 2)
             b == MaxRange(d, ((lo + hi) \div 2) + 1, hi)
         IN  IF FGt(b, a) THEN b ELSE a

\* Series.max() of a non-empty column
MaxConsumo(d) == MaxRange(d, 1, Len(d))

\* np.ceil of a rational
Ceil(x) == -((-x.num) \div x.den)

\* int(np.ceil(max / 10.0) * 10)
consumo_max(d) == Ceil(FDiv(MaxConsumo(d), F(SliderStep))) * SliderStep

\* render_filters raises: max() of an empty column is NaN and int(NaN)
\* is a ValueError; a slider whose maximum is below its minimum is refused.
render_filters_fails(d) ==
    IF d = <<>> THEN TRUE ELSE consumo_max(d) < 0

\* The positions of st.slider(0, consumo_max, 0, step=10)
SliderValues(d) ==
    IF render_filters_fails(d) THEN {}
    ELSE {t \in 0..consumo_max(d) : t % SliderStep = 0}

(***************************************************************************)
(* apply_filters                                                           *)
(***************************************************************************)
isin(c, values) == ~c.null /\ c.text \in values

\* The usage threshold compared with > in place of >=
apply_filters_strict(d, bairros_sel, tipos_sel, criticos_sel, consumo_min) ==
    LET mask(r) == /\ isin(r.Bairro, bairros_sel)
                   /\ isin(r.TipoDePlano, tipos_sel)
                   /\ FGt(r.ConsumoAtual, F(consumo_min))
        criticos(r) == r.Excedeu
        nao_criticos(r) == ~r.Excedeu
        filtrado == SelectSeq(d, mask)
    IN  IF criticos_sel = ApenasCriticos THEN SelectSeq(filtrado, criticos)
        ELSE IF criticos_sel = SemCriticos THEN SelectSeq(filtrado, nao_criticos)
        ELSE filtrado

\* The mask applied one position off: the first matching row is lost.
apply_filters_skips_first(d, bairros_sel, tipos_sel, criticos_sel, consumo_min) ==
    LET mask(r) == /\ isin(r.Bairro, bairros_sel)
                   /\ isin(r.TipoDePlano, tipos_sel)
                   /\ FGe(r.ConsumoAtual, F(consumo_min))
        criticos(r) == r.Excedeu
        nao_criticos(r) == ~r.Excedeu
        filtrado == SelectSeq(d, mask)
        moded == IF criticos_sel = ApenasCriticos THEN SelectSeq(filtrado, criticos)
                 ELSE IF criticos_sel = SemCriticos
                      THEN SelectSeq(filtrado, nao_criticos)
                 ELSE filtrado
    IN  IF moded = <<>> THEN moded ELSE Tail(moded)

apply_filters(d, bairros_sel, tipos_sel, criticos_sel, consumo_min) ==
    LET mask(r) == /\ isin(r.Bairro, bairros_sel)
                   /\ isin(r.TipoDePlano, tipos_sel)
                   /\ FGe(r.ConsumoAtual, F(consumo_min))
        criticos(r) == r.Excedeu
        nao_criticos(r) == ~r.Excedeu
        filtrado == SelectSeq(d, mask)
    IN  IF criticos_sel = ApenasCriticos THEN SelectSeq(filtrado, criticos)
        ELSE IF criticos_sel = SemCriticos THEN SelectSeq(filtrado, nao_criticos)
        ELSE filtrado

(***************************************************************************)
(* compute_kpis                                                            *)
(***************************************************************************)
\* Sums over the rows lo..hi of a column, by halves.
RECURSIVE SumExcedeu50(_, _, _)
SumExcedeu50(d, lo, hi) ==
    IF lo > hi THEN 0
    ELSE IF lo = hi THEN (IF d[lo].Excedeu50 THEN 1 ELSE 0)
    ELSE SumExcedeu50(d, lo, (lo + hi) \div 2)
         + SumExcedeu50(d, ((lo + hi) \div 2) + 1, hi)

RECURSIVE SumExcedeu(_, _, _)
SumExcedeu(d, lo, hi) ==
    IF lo > hi THEN 0
    ELSE IF lo = hi THEN (IF d[lo].Excedeu THEN 1 ELSE 0)
    ELSE SumExcedeu(d, lo, (lo + hi) \div 2)
         + SumExcedeu(d, ((lo + hi) \div 2) + 1, hi)

RECURSIVE SumRange(_, _, _)
SumRange(d, lo, hi) ==
    IF lo > hi THEN F(0)
    ELSE IF lo = hi THEN d[lo].ConsumoAtual
    ELSE FAdd(SumRange(d, lo, (lo + hi) \div 2),
              SumRange(d, ((lo + hi) \div 2) + 1, hi))

\* df["Excedeu50"].sum(): True counts 1, False 0.
sum_Excedeu50(d) == SumExcedeu50(d, 1, Len(d))

\* The critical count taken from the wrong column
sum_wrong_column(d) == sum_Excedeu50(d)

\* df["Excedeu"].sum()
sum_Excedeu(d) == SumExcedeu(d, 1, Len(d))

\* df["Consumo Atual (MB/s)"].sum()
SumConsumo(d) == SumRange(d, 1, Len(d))

\* Series.mean()
mean_consumo(d) == FDiv(SumConsumo(d), F(Len(d)))

\* Series.value_counts()
value_counts(d) ==
    [b \in BairrosOf(d) |->
        LET same(r) == r.Bairro.text = b
        IN  Len(SelectSeq(d, same))]

\* Series.mode().iloc[0]: the modes come sorted, the first one is taken.
mode_first(d) ==
    LET counts == value_counts(d)
        modes == {b \in DOMAIN counts :
                    \A c \in DOMAIN counts : counts[c] <= counts[b]}
    IN  SortTexts(modes)[1]

Placeholder == <<"-">>

\* No branch for the empty roster: mean() of nothing and 0 / 0 are NaN.
compute_kpis_no_branch(d) ==
    [total_clientes |-> Len(d),
     total_criticos |-> sum_Excedeu(d),
     total_criticos50 |-> sum_Excedeu50(d),
     consumo_medio |-> IF d = <<>> THEN NaN ELSE mean_consumo(d),
     bairro_top |-> IF d = <<>> THEN Placeholder ELSE mode_first(d),
     perc_criticos |->
        IF d = <<>> THEN NaN
        ELSE FMul(FDiv(F(sum_Excedeu(d)), F(Len(d))), F(100))]

compute_kpis(d) ==
    IF d = <<>>
    THEN [total_clientes |-> 0,
          total_criticos |-> 0,
          total_criticos50 |-> 0,
          consumo_medio |-> F(0),
          bairro_top |-> Placeholder,
          perc_criticos |-> F(0)]
    ELSE [total_clientes |-> Len(d),
          total_criticos |-> sum_Excedeu(d),
          total_criticos50 |-> sum_Excedeu50(d),
          consumo_medio |-> mean_consumo(d),
          bairro_top |-> mode_first(d),
          perc_criticos |->
             FMul(FDiv(F(sum_Excedeu(d)), F(Len(d))), F(100))]

(***************************************************************************)
(* build_trend_data, render_trend                                          *)
(***************************************************************************)
meses == <<"Jan", "Fev", "Mar", "Abr", "Mai", "Jun",
           "Jul", "Ago", "Set", "Out", "Nov", "Dez">>

TrendColumns == <<"Bairro", "Mês", "Consumo Médio (MB/s)">>

\* rng.uniform(60, 200): a value of [60, 200)
uniform(s, k) == F(UniformLow + Draw(SeedTrend, s, k, UniformHigh - UniformLow))

\* rng.normal(0, 12): sigma times a deviate, in half sigmas, of -MaxZ..MaxZ
normal(s, k) ==
    Rat(NormalSigma * (Draw(SeedTrend, s, k, 2 * MaxZ + 1) - MaxZ), 2)

\* The number of values the generator has given before entry i is reached:
\* twelve per earlier entry, and one more per earlier undefined base.
DrawsBefore(seed, i) ==
    (i - 1) * Len(meses) + Cardinality({j \in 1..(i - 1) : seed[j][2].nan})

build_trend_data(seed, s) ==
    IF seed = <<>> THEN [columns |-> TrendColumns, rows |-> <<>>]
    ELSE [columns |-> TrendColumns,
          rows |->
            [n \in 1..(Len(seed) * Len(meses)) |->
                LET i == ((n - 1) \div Len(meses)) + 1
                    idx == (n - 1) % Len(meses)
                    k0 == DrawsBefore(seed, i)
                    undefined == seed[i][2].nan
                    base == IF ~undefined THEN seed[i][2] ELSE uniform(s, k0)
                    k == k0 + (IF undefined THEN 1 ELSE 0) + idx
                IN  [Bairro |-> seed[i][1],
                     Mes |-> meses[idx + 1],
                     Consumo |->
                        FMax0(FAdd(FAdd(base, normal(s, k)), Rat(idx * 12, 10)))]]]

Group(d, bairro) ==
    LET same(r) == r.Bairro.text = bairro
    IN  SelectSeq(d, same)

\* tuple(sorted((bairro, float(valor)) for bairro, valor in means.items()))
trend_seed(df_base) ==
    LET names == SortTexts(BairrosOf(df_base))
    IN  [i \in 1..Len(names) |-> <<names[i], mean_consumo(Group(df_base, names[i]))>>]

(***************************************************************************)
(* The render cycle of main()                                              *)
(***************************************************************************)
Streams == 1..MaxStreams

NoSelection == [bairros |-> {}, tipos |-> {}, criticos |-> Todos, consumo_min |-> 0]

NoKpis == [total_clientes |-> -1]

NoTrend == [columns |-> <<>>, rows |-> <<>>]

\* What a user picks in a multiselect: everything (the default), nothing,
\* or one of the first options of the (sorted) list.
Picks(options) ==
    LET sorted == SortTexts(options)
        shown == IF Len(sorted) < MaxSel THEN Len(sorted) ELSE MaxSel
    IN  {options, {}} \cup {{sorted[i]} : i \in 1..shown}

\* Where a user leaves the slider: near its start, or at its end.
SliderPicks(d) ==
    LET values == SliderValues(d)
        last == CHOOSE t \in values : \A u \in values : u <= t
    IN  {t \in values : t <= MaxSlider * SliderStep \/ t = last}

InitWith(files) ==
    /\ pc = "load"
    /\ file \in files
    /\ rng \in Streams
    /\ df = <<>>
    /\ source = ""
    /\ sel = NoSelection
    /\ df_filtrado = <<>>
    /\ df_twice = <<>>
    /\ kpis = NoKpis
    /\ seed_data = <<>>
    /\ trend = NoTrend
    /\ trend_info = FALSE

\* The files the render cycle is run on: every readable file, and one file
\* of each kind that fails to load.
MainFiles ==
    {f \in Files :
        \/ f.kind = "missing"
        \/ f.header = CleanHeader
        \/ f.header = RemoveAt(CleanHeader, 4)
        \/ f.header = DirtyHeader /\ f.rows = <<RowPool[1]>>}

Init == InitWith(MainFiles)

\* load_client_data is cached: it runs once, and every later run of main()
\* gets the same roster and label.
LoadClientData ==
    /\ pc = "load"
    /\ df' = load_client_data(file, rng).df
    /\ source' = load_client_data(file, rng).source
    /\ pc' = "ready"
    /\ UNCHANGED <<file, rng, sel, df_filtrado, df_twice, kpis, seed_data,
                   trend, trend_info>>

\* The trend always taken from the filtered roster
trend_base_filtered(filtrado, d) == filtrado

\* render_trend(df_filtrado if not df_filtrado.empty else df)
trend_base(filtrado, d) == IF filtrado # <<>> THEN filtrado ELSE d

\* One run of main() after the load, for the widget values the user has
\* set: render_filters, apply_filters, compute_kpis and render_trend.
Render ==
    /\ pc = "ready"
    /\ ~render_filters_fails(df)
    /\ \E b \in Picks(BairrosOf(df)), t \in Picks(TiposOf(df)),
          c \in Modes, m \in SliderPicks(df) :
          LET filtrado == apply_filters(df, b, t, c, m)
              seed == trend_seed(trend_base(filtrado, df))
              tendencia == build_trend_data(seed, rng)
          IN  /\ sel' = [bairros |-> b, tipos |-> t, criticos |-> c,
                         consumo_min |-> m]
              /\ df_filtrado' = filtrado
              /\ kpis' = compute_kpis(filtrado)
              /\ seed_data' = seed
              /\ trend' = tendencia
              /\ trend_info' = (tendencia.rows = <<>>)
    /\ pc' = "done"
    /\ UNCHANGED <<file, rng, df, source, df_twice>>

\* The run of main() ends in render_filters with an exception.
RenderRaises ==
    /\ pc = "ready"
    /\ render_filters_fails(df)
    /\ pc' = "raised"
    /\ UNCHANGED <<file, rng, df, source, sel, df_filtrado, df_twice, kpis,
                   seed_data, trend, trend_info>>

\* The user touches a widget: the script runs again from the top, with the
\* cached roster and nothing else kept.
Rerun ==
    /\ pc = "done"
    /\ pc' = "ready"
    /\ sel' = NoSelection
    /\ df_filtrado' = <<>>
    /\ kpis' = NoKpis
    /\ seed_data' = <<>>
    /\ trend' = NoTrend
    /\ trend_info' = FALSE
    /\ UNCHANGED <<file, rng, df, source, df_twice>>

Next ==
    \/ LoadClientData
    \/ Render
    \/ RenderRaises
    \/ Rerun

Spec == Init /\ [][Next]_vars

(***************************************************************************)
(* load_client_data as a function of the file                              *)
(***************************************************************************)
InitLoad == InitWith(Files)

NextLoad == LoadClientData

SpecLoad == InitLoad /\ [][NextLoad]_vars

(***************************************************************************)
(* apply_filters as a function of its arguments                            *)
(***************************************************************************)
FilterFiles == {f \in Files : f.kind = "missing" \/ f.header = CleanHeader}

FilterBairros == {Centro, AreiaBranca, NanText}

FilterTipos == {Residencial, Empresarial}

FilterMinimos == {0, 50, 60}

InitFilter ==
    /\ pc = "filter"
    /\ file \in FilterFiles
    /\ rng \in IF read_ok(file) THEN {1} ELSE Streams
    /\ df = load_client_data(file, rng).df
    /\ source = load_client_data(file, rng).source
    /\ sel \in [bairros : SUBSET FilterBairros, tipos : SUBSET FilterTipos,
                criticos : Modes, consumo_min : FilterMinimos]
    /\ df_filtrado = <<>>
    /\ df_twice = <<>>
    /\ kpis = NoKpis
    /\ seed_data = <<>>
    /\ trend = NoTrend
    /\ trend_info = FALSE

FilterOnce ==
    /\ pc = "filter"
    /\ df_filtrado' =
          apply_filters(df, sel.bairros, sel.tipos, sel.criticos, sel.consumo_min)
    /\ pc' = "refilter"
    /\ UNCHANGED <<file, rng, df, source, sel, df_twice, kpis, seed_data,
                   trend, trend_info>>

FilterTwice ==
    /\ pc = "refilter"
    /\ df_twice' =
          apply_filters(df_filtrado, sel.bairros, sel.tipos, sel.criticos,
                        sel.consumo_min)
    /\ pc' = "filtered"
    /\ UNCHANGED <<file, rng, df, source, sel, df_filtrado, kpis, seed_data,
                   trend, trend_info>>

NextFilter == FilterOnce \/ FilterTwice

SpecFilter == InitFilter /\ [][NextFilter]_vars

(***************************************************************************)
(* build_trend_data as a function of its argument                          *)
(***************************************************************************)
TrendBairros == {Centro, AreiaBranca, ZonaRural}

TrendBases == {NaN, F(-50), F(0), F(55), Rat(185, 3)}

\* Tuples of at most n (neighbourhood, base) pairs, neighbourhoods distinct.
RECURSIVE SeedTuples(_, _)
SeedTuples(names, n) ==
    IF n = 0 THEN {<<>>}
    ELSE {<<>>} \cup
         UNION {{<< <<b, v>> >> \o q : q \in SeedTuples(names \ {b}, n - 1)} :
                    b \in names, v \in TrendBases}

InitTrend ==
    /\ pc = "trend_in"
    /\ file = [kind |-> "missing", header |-> <<>>, rows |-> <<>>]
    /\ rng \in Streams
    /\ df = <<>>
    /\ source = ""
    /\ sel = NoSelection
    /\ df_filtrado = <<>>
    /\ df_twice = <<>>
    /\ kpis = NoKpis
    /\ seed_data \in SeedTuples(TrendBairros, MaxSeedLen)
    /\ trend = NoTrend
    /\ trend_info = FALSE

BuildTrendData ==
    /\ pc = "trend_in"
    /\ trend' = build_trend_data(seed_data, rng)
    /\ trend_info' = (trend'.rows = <<>>)
    /\ pc' = "trend_out"
    /\ UNCHANGED <<file, rng, df, source, sel, df_filtrado, df_twice, kpis,
                   seed_data>>

NextTrend == BuildTrendData

SpecTrend == InitTrend /\ [][NextTrend]_vars

(***************************************************************************)
(* Properties                                                              *)
(***************************************************************************)
\* load_client_data has just returned df and source.
Loaded == pc = "ready"

RowsOf(d) == {d[i] : i \in 1..Len(d)}

NonNegative(x) == FGe(x, F(0))

\* C1 as stated: in every row of the loaded roster and of the filtered
\* roster, Excedeu50 implies Excedeu, whatever the plan speed and usage.
C1_Excedeu50ImpliesExcedeu ==
    /\ \A i \in 1..Len(df) : df[i].Excedeu50 => df[i].Excedeu
    /\ \A i \in 1..Len(df_filtrado) : df_filtrado[i].Excedeu50 => df_filtrado[i].Excedeu

\* C1 amended: in every row of the loaded roster and of the filtered roster
\* whose plan speed is not negative, Excedeu50 implies Excedeu; every
\* generated row has such a plan speed.
C1_Excedeu50ImpliesExcedeuNonNegativePlan ==
    /\ \A i \in 1..Len(df) :
          NonNegative(df[i].Plano) /\ df[i].Excedeu50 => df[i].Excedeu
    /\ \A i \in 1..Len(df_filtrado) :
          NonNegative(df_filtrado[i].Plano) /\ df_filtrado[i].Excedeu50
             => df_filtrado[i].Excedeu
    /\ Loaded /\ source = SourceSimulated =>
          \A i \in 1..Len(df) : NonNegative(df[i].Plano)

C1_Witness ==
    /\ pc = "done"
    /\ \E r \in RowsOf(df_filtrado) : r.Excedeu50 /\ r.Excedeu
    /\ \E r \in RowsOf(df_filtrado) : ~r.Excedeu50 /\ r.Excedeu

\* The identifier cells of the input file, as read_csv types and prints them.
SourceIds == column_astype_str(Column(_clean_columns(file.header), file.rows, H_ClienteID))

IdColumnIsInt ==
    \A i \in 1..Len(file.rows) :
        LET c == Column(_clean_columns(file.header), file.rows, H_ClienteID)[i]
        IN  ~c.null /\ IsNatText(c.text)

ThreeDigits(t) == Len(t) = IdWidth /\ IsNatText(t)

UndefinedAfterCoercion(j) ==
    LET columns == _clean_columns(file.header)
    IN  \/ to_numeric(Column(columns, file.rows, H_Plano)[j]).nan
        \/ to_numeric(Column(columns, file.rows, H_Consumo)[j]).nan
        \/ Column(columns, file.rows, H_Tipo)[j].null
        \/ Column(columns, file.rows, H_Bairro)[j].null

\* C3: every input row that is undefined in plan speed, usage, plan tier
\* or neighbourhood is dropped (also one whose neighbourhood cell is
\* empty), every row kept is defined in all four, and dropping rows leaves
\* the source label "file".
C3_UndefinedRowsDropped ==
    Loaded /\ read_ok(file) =>
        /\ source = SourceFile
        /\ \A j \in 1..Len(file.rows) :
              UndefinedAfterCoercion(j) => \A r \in RowsOf(df) : r.Index # j - 1
        /\ \A r \in RowsOf(df) :
              ~r.Bairro.null /\ ~r.Plano.nan /\ ~r.ConsumoAtual.nan /\ ~r.TipoDePlano.null

\* The load succeeds: the file reads as a table and each of the five
\* required names is the cleaned form of one of its headers.
AllFiveColumnsPresent ==
    /\ file.kind = "table"
    /\ \A name \in {H_ClienteID, H_Bairro, H_Plano, H_Tipo, H_Consumo} :
          \E i \in 1..Len(file.header) : strip(replace_newline(file.header[i])) = name

\* C4: whenever the load fails (file missing, unreadable, or one of the
\* five required columns absent after header cleaning) the source label is
\* "simulated" and the roster has exactly 150 rows, each with a Bairro that
\* is a key of the coordinate table and with defined Lat and Lon; the label
\* is "file" exactly when the read succeeded with all five columns.
C4_FallbackRoster ==
    Loaded =>
        /\ source \in {SourceFile, SourceSimulated}
        /\ source = SourceFile <=> AllFiveColumnsPresent
        /\ source = SourceSimulated =>
              /\ Len(df) = 150
              /\ \A r \in RowsOf(df) :
                    /\ r.Bairro.text \in DOMAIN BAIRRO_COORDS
                    /\ ~r.Lat.nan /\ ~r.Lon.nan
                    /\ <<r.Lat, r.Lon>> = BAIRRO_COORDS[r.Bairro.text]

C4_Witness ==
    /\ pc = "ready"
    /\ file.kind = "table"
    /\ Len(file.header) = 4
    /\ source = SourceSimulated
    /\ Len(df) = 150

\* The rows apply_filters is to keep, as one predicate.
Selected(r) ==
    /\ r.Bairro.text \in sel.bairros
    /\ r.TipoDePlano.text \in sel.tipos
    /\ FGe(r.ConsumoAtual, F(sel.consumo_min))
    /\ sel.criticos = ApenasCriticos => r.Excedeu
    /\ sel.criticos = SemCriticos => ~r.Excedeu

Filtered == pc \in {"refilter", "filtered"}

\* C5: apply_filters returns exactly the rows with Bairro and plan tier in
\* the selections and usage >= threshold, with Excedeu required in
\* "critical only" mode and forbidden in "non-critical only" mode; an empty
\* selection gives an empty result, the result is part of the input, and
\* the input roster is left as it was.
C5_FilterExact ==
    Filtered =>
        /\ df_filtrado = SelectSeq(df, Selected)
        /\ sel.bairros = {} \/ sel.tipos = {} => df_filtrado = <<>>
        /\ RowsOf(df_filtrado) \subseteq RowsOf(df)
        /\ df = load_client_data(file, rng).df

C5_Witness ==
    /\ pc = "filtered"
    /\ sel.criticos = SemCriticos
    /\ sel.consumo_min = 50
    /\ df_filtrado # <<>>
    /\ Len(df_filtrado) < Len(df)
    /\ \E r \in RowsOf(df_filtrado) : r.ConsumoAtual = F(50)

KpisComputed == pc = "done"

\* C6: on an empty roster compute_kpis returns exactly total_clientes 0,
\* total_criticos 0, total_criticos50 0, consumo_medio 0.0, bairro_top "-",
\* perc_criticos 0.0.
C6_EmptyKpis ==
    KpisComputed /\ df_filtrado = <<>> =>
        kpis = [total_clientes |-> 0, total_criticos |-> 0, total_criticos50 |-> 0,
                consumo_medio |-> F(0), bairro_top |-> <<"-">>,
                perc_criticos |-> F(0)]

C6_Witness == pc = "done" /\ df_filtrado = <<>> /\ df # <<>>

Occurrences(d, b) == Len(SelectSeq(d, LAMBDA r : r.Bairro.text = b))

IsScenario == file.kind = "table" /\ file.header = CleanHeader /\ file.rows = ScenarioRows

\* C7: on a non-empty roster compute_kpis returns the row count, the
\* number of rows with Excedeu, the number with Excedeu50, the mean usage,
\* a most frequent Bairro and critical / total * 100; the three-row roster
\* of the scenario gets Excedeu true, false, true, and filtered to Centro
\* keeps two rows with total 2, critical 1, mean 55.0, top Centro, 50.0 %.
C7_Kpis ==
    /\ KpisComputed /\ df_filtrado # <<>> =>
          /\ kpis.total_clientes = Len(df_filtrado)
          /\ kpis.total_criticos =
                Cardinality({i \in 1..Len(df_filtrado) : df_filtrado[i].Excedeu})
          /\ kpis.total_criticos50 =
                Cardinality({i \in 1..Len(df_filtrado) : df_filtrado[i].Excedeu50})
          /\ FMul(kpis.consumo_medio, F(Len(df_filtrado))) = SumConsumo(df_filtrado)
          /\ kpis.bairro_top \in BairrosOf(df_filtrado)
          /\ \A b \in BairrosOf(df_filtrado) :
                Occurrences(df_filtrado, b) <= Occurrences(df_filtrado, kpis.bairro_top)
          /\ kpis.perc_criticos = Rat(100 * kpis.total_criticos, kpis.total_clientes)
    /\ Loaded /\ IsScenario =>
          [i \in 1..Len(df) |-> df[i].Excedeu] = <<TRUE, FALSE, TRUE>>
    /\ /\ KpisComputed
       /\ IsScenario
       /\ sel = [bairros |-> {Centro}, tipos |-> TiposOf(df), criticos |-> Todos,
                 consumo_min |-> 0]
       => /\ Len(df_filtrado) = 2
          /\ kpis.total_clientes = 2
          /\ kpis.total_criticos = 1
          /\ kpis.consumo_medio = F(55)
          /\ kpis.bairro_top = Centro
          /\ kpis.perc_criticos = F(50)

C7_Witness ==
    /\ pc = "done"
    /\ IsScenario
    /\ sel = [bairros |-> {Centro}, tipos |-> TiposOf(df), criticos |-> Todos,
              consumo_min |-> 0]
    /\ kpis.total_clientes = 2

\* C8: applying the same filter to its own result gives the result again.
C8_FilterIdempotent == pc = "filtered" => df_twice = df_filtrado

C8_Witness ==
    /\ pc = "filtered"
    /\ df_twice # <<>>
    /\ Len(df_twice) < Len(df)
    /\ sel.criticos = ApenasCriticos

TrendBuilt == pc \in {"trend_out", "done"}

SeedNames == {seed_data[i][1] : i \in 1..Len(seed_data)}

====
